---- MODULE Spec2Model ----
(***************************************************************************)
(* Model of the Medical-Report-Analyzer pipeline:                          *)
(*   main_app.py       the Streamlit script (upload, parse, analyze, rerun)*)
(*   parser_agent.py   PDFParserAgent.extract_text_and_images              *)
(*   analyzer_agent.py AnalyzerAgent.analyze_report (two passes)           *)
(*   helpers.py        call_gemini_text / call_gemini_vision, both wrapped *)
(*                     in st.cache_data                                    *)
(* Texts are sequences of tokens (strings); a page-boundary marker         *)
(* "--- Page k ---" is one token.  An optional text (a Python str or None) *)
(* is a record [ok, text].                                                 *)
(***************************************************************************)
EXTENDS Integers, Sequences, FiniteSets, TLC

\* ---------------------------------------------------------------- bounds
MaxPages   == 2     \* pages of an uploaded PDF
MaxRefs    == 2     \* image references in an uploaded PDF

\* ------------------------------------------------------------ text model
Whitespace == {"\n", " "}

\* f"--- Page {current_page_num_for_log} ---"
PageMarker(k) == <<"--- Page 1 ---", "--- Page 2 ---",
                   "--- Page 3 ---", "--- Page 4 ---">>[k]

MarkerTokens == {PageMarker(k) : k \in 1..4}

\* what page.get_text("text") returns: nothing, ordinary words, or a line
\* that reads like a page marker
PageTexts == {<<>>, <<"a">>, <<PageMarker(1)>>}

RECURSIVE SeqsUpTo(_, _)
SeqsUpTo(S, n) ==
  IF n = 0 THEN {<<>>}
  ELSE LET shorter == SeqsUpTo(S, n - 1)
       IN  shorter \cup {Append(s, x) : s \in shorter, x \in S}

\* str.strip(): drop leading and trailing whitespace
RECURSIVE LStrip(_)
LStrip(t) ==
  IF t # <<>> /\ Head(t) \in Whitespace THEN LStrip(Tail(t)) ELSE t

RECURSIVE RStrip(_)
RStrip(t) ==
  IF t # <<>> /\ t[Len(t)] \in Whitespace
  THEN RStrip(SubSeq(t, 1, Len(t) - 1)) ELSE t

Strip(t) == RStrip(LStrip(t))

\* str.replace(old, new) for a one-token old
RECURSIVE Replace(_, _, _)
Replace(t, old, new) ==
  IF t = <<>> THEN <<>>
  ELSE (IF Head(t) = old THEN new ELSE <<Head(t)>>) \o Replace(Tail(t), old, new)

\* a Python "str or None"
None      == [ok |-> FALSE, text |-> <<>>]
Some(t)   == [ok |-> TRUE, text |-> t]
Falsy(x)  == ~x.ok \/ x.text = <<>>

\* ------------------------------------------------------------- documents
\* what doc.extract_image(xref) does for one reference: a payload, an
\* empty payload, or an exception
ReadablePayloads == {"pngRGB", "jpegYCC"}   \* PIL opens it and saves it as JPEG
ImagePayloads    == ReadablePayloads \cup {"pngLA"}   \* LA: JPEG save raises
RefOutcomes      == ImagePayloads \cup {"EMPTY", "RAISE"}

\* a page on which doc.load_page or page.get_text raises
CorruptPage == [ok |-> FALSE, text |-> <<>>, refs |-> <<>>]

\* the pages a PDF can have when it has room for nrefs more image
\* references: a page of text or a page of images (a scan)
PagesWithin(nrefs) ==
  {[ok |-> TRUE, text |-> t, refs |-> <<>>] : t \in PageTexts}
  \cup {[ok |-> TRUE, text |-> <<>>, refs |-> r] :
          r \in SeqsUpTo(RefOutcomes, nrefs) \ {<<>>}}

RECURSIVE PageSeqs(_, _)
PageSeqs(npages, nrefs) ==
  IF npages = 0 THEN {<<>>}
  ELSE {<<>>} \cup
       UNION {{<<p>> \o rest : rest \in PageSeqs(npages - 1, nrefs - Len(p.refs))} :
                p \in PagesWithin(nrefs)}

NoDoc == [kind |-> "none", pages |-> <<>>]

\* the files a user can upload: PDFs, a PDF with a page that cannot be
\* loaded, a file of 0 bytes, a file fitz.open rejects
Uploads ==
  {[kind |-> "pdf", pages |-> p] : p \in PageSeqs(MaxPages, MaxRefs)}
  \cup {[kind |-> "pdf", pages |-> <<[ok |-> TRUE, text |-> <<"a">>, refs |-> <<"RAISE">>],
                                     CorruptPage>>],
        [kind |-> "empty_file", pages |-> <<>>],
        [kind |-> "malformed", pages |-> <<>>]}

\* ---------------------------------------------------- PDFParserAgent
\* (variant: a reference that does not resolve aborts the extraction)
ExtractImagesFailureFatal(refs, img_index, page_no, acc) ==
  IF \E i \in 1..Len(refs) : refs[i] \notin ImagePayloads
  THEN [acc EXCEPT !.raised = TRUE]
  ELSE [acc EXCEPT !.images_data =
          @ \o [i \in 1..Len(refs) |->
                  [page_num |-> page_no, image_bytes |-> refs[i],
                   index_on_page |-> i - 1]]]

\* the inner loop over image_list of one page
RECURSIVE ExtractImages(_, _, _, _)
ExtractImages(refs, img_index, page_no, acc) ==
  IF img_index >= Len(refs) THEN acc
  ELSE LET base_image == refs[img_index + 1]
       IN  ExtractImages(refs, img_index + 1, page_no,
             IF base_image \in ImagePayloads
             THEN [acc EXCEPT !.images_data =
                     Append(@, [page_num |-> page_no,
                                image_bytes |-> base_image,
                                index_on_page |-> img_index])]
             ELSE [acc EXCEPT !.warnings = @ + 1])

\* (variant: a page without text gets no marker)
PageChunkNoMarkerWhenEmpty(k, page_text) ==
  IF page_text = <<>> THEN <<"\n">>
  ELSE <<"\n", PageMarker(k), "\n">> \o page_text \o <<"\n">>

\* (variant: only the page's text is added, without a marker line)
PageChunkTextOnly(k, page_text) == page_text \o <<"\n">>

\* the text a page adds to full_text
PageChunk(k, page_text) ==
  <<"\n", PageMarker(k), "\n">> \o page_text \o <<"\n">>

\* the loop over pages; a page that cannot be loaded raises
RECURSIVE ExtractPages(_, _, _)
ExtractPages(pages, page_num, acc) ==
  IF page_num >= Len(pages) THEN acc
  ELSE LET page == pages[page_num + 1]
           current_page_num_for_log == page_num + 1
       IN  IF ~page.ok THEN [acc EXCEPT !.raised = TRUE]
           ELSE ExtractPages(pages, page_num + 1,
                  ExtractImages(page.refs, 0, current_page_num_for_log,
                    [acc EXCEPT
                       !.full_text = @ \o PageChunk(current_page_num_for_log, page.text),
                       !.pages_text = Append(@, page.text)]))

NoData == [ok |-> FALSE, full_text |-> <<>>, images |-> <<>>, pages_text |-> <<>>]

extract_text_and_images(d) ==
  IF d.kind # "pdf" THEN [data |-> NoData, warnings |-> 0]
  ELSE LET acc == ExtractPages(d.pages, 0,
                    [full_text |-> <<>>, pages_text |-> <<>>,
                     images_data |-> <<>>, warnings |-> 0, raised |-> FALSE])
       IN  IF acc.raised THEN [data |-> NoData, warnings |-> acc.warnings]
           ELSE [data |-> [ok |-> TRUE,
                           full_text |-> Strip(acc.full_text),
                           images |-> acc.images_data,
                           pages_text |-> acc.pages_text],
                 warnings |-> acc.warnings]

\* ------------------------------------------------- Completion Service
\* what the hosted model does with one request: answer, answer with an
\* empty text, or raise (quota, network, blocked response)
SvcModes == {"text", "empty", "raise"}

\* a deterministic stub: the answer is a function of the request
Reply(prompt, parts) ==
  <<"REPLY">> \o prompt \o [i \in 1..Len(parts) |-> parts[i].data]

\* model.generate_content(...).text
generate_content(prompt, parts, m) ==
  IF m = "text" THEN [raised |-> FALSE, text |-> Reply(prompt, parts)]
  ELSE IF m = "empty" THEN [raised |-> FALSE, text |-> <<>>]
  ELSE [raised |-> TRUE, text |-> <<>>]

\* ------------------------------------------------------------- helpers
ModelName == <<"gemini-1.5-flash">>

\* st.cache_data: a cache is a set of [key, val]; the key is the tuple of
\* the arguments passed, the value whatever the function returned
CacheHas(c, k) == \E e \in c : e.key = k
CacheGet(c, k) == (CHOOSE e \in c : e.key = k).val
CachePut(c, k, v) == c \cup {[key |-> k, val |-> v]}

\* body of call_gemini_text: one request; an exception becomes None
TextBody(prompt, m) ==
  LET response == generate_content(prompt, <<>>, m)
  IN  [ret   |-> IF response.raised THEN None ELSE Some(response.text),
       calls |-> <<[op |-> "text", prompt |-> prompt, parts |-> <<>>,
                    mode |-> m]>>]

\* the decorated call_gemini_text; args is <<prompt>> or <<prompt, model_name>>
call_gemini_text(args, m, tc) ==
  IF CacheHas(tc, args)
  THEN [ret |-> CacheGet(tc, args), calls |-> <<>>, textCache |-> tc]
  ELSE LET b == TextBody(args[1], m)
       IN  [ret |-> b.ret, calls |-> b.calls,
            textCache |-> CachePut(tc, args, b.ret)]

\* Image.open + convert + save(format='JPEG')
ToJpeg(img_bytes) ==
  CASE img_bytes = "pngRGB" -> "jpeg(pngRGB)"
    [] img_bytes = "jpegYCC" -> "jpeg(jpegYCC)"
    [] OTHER -> "jpeg(?)"

\* (variant: the parts are collected in reverse)
RECURSIVE ImagePartsReversed(_)
ImagePartsReversed(image_bytes_list) ==
  IF image_bytes_list = <<>> THEN <<>>
  ELSE ImagePartsReversed(Tail(image_bytes_list)) \o
       (IF Head(image_bytes_list) \in ReadablePayloads
        THEN <<[mime_type |-> "image/jpeg", data |-> ToJpeg(Head(image_bytes_list))]>>
        ELSE <<>>)

\* the loop that builds image_parts; an image PIL cannot re-encode is skipped
RECURSIVE ImageParts(_)
ImageParts(image_bytes_list) ==
  IF image_bytes_list = <<>> THEN <<>>
  ELSE (IF Head(image_bytes_list) \in ReadablePayloads
        THEN <<[mime_type |-> "image/jpeg", data |-> ToJpeg(Head(image_bytes_list))]>>
        ELSE <<>>) \o ImageParts(Tail(image_bytes_list))

\* (variant: a failed multimodal request is retried as a text request)
VisionBodyRetriesAsText(prompt, image_bytes_list, m, tc) ==
  LET image_parts == ImageParts(image_bytes_list)
      response == generate_content(prompt, image_parts, m)
      first == [op |-> "multimodal", prompt |-> prompt,
                parts |-> image_parts, mode |-> m]
      again == call_gemini_text(<<prompt, ModelName>>, m, tc)
  IN  IF image_parts = <<>> THEN again
      ELSE IF response.raised
           THEN [ret |-> again.ret, calls |-> <<first>> \o again.calls,
                 textCache |-> again.textCache]
           ELSE [ret |-> Some(response.text), calls |-> <<first>>, textCache |-> tc]

\* body of call_gemini_vision
VisionBody(prompt, image_bytes_list, m, tc) ==
  IF image_bytes_list = <<>>
  THEN call_gemini_text(<<prompt, ModelName>>, m, tc)
  ELSE LET image_parts == ImageParts(image_bytes_list)
       IN  IF image_parts = <<>>
           THEN call_gemini_text(<<prompt, ModelName>>, m, tc)
           ELSE LET response == generate_content(prompt, image_parts, m)
                IN  [ret   |-> IF response.raised THEN None ELSE Some(response.text),
                     calls |-> <<[op |-> "multimodal", prompt |-> prompt,
                                  parts |-> image_parts, mode |-> m]>>,
                     textCache |-> tc]

\* the decorated call_gemini_vision
call_gemini_vision(prompt, image_bytes_list, m, tc, vc) ==
  LET key == <<prompt, image_bytes_list>>
  IN  IF CacheHas(vc, key)
      THEN [ret |-> CacheGet(vc, key), calls |-> <<>>,
            textCache |-> tc, visionCache |-> vc]
      ELSE LET b == VisionBody(prompt, image_bytes_list, m, tc)
           IN  [ret |-> b.ret, calls |-> b.calls, textCache |-> b.textCache,
                visionCache |-> CachePut(vc, key, b.ret)]

\* --------------------------------------------------------- AnalyzerAgent
Placeholder == "[PLACEHOLDER_FOR_INITIAL_ANALYSIS_OR_FULL_TEXT]"

FallbackMarker == <<"Could not pre-process text. Using raw text for synthesis.">>

extraction_prompt(full_text) == <<"EXTRACT_HEAD">> \o full_text \o <<"EXTRACT_TAIL">>

synthesis_prompt == <<"SYNTH_HEAD", Placeholder, "SYNTH_TAIL">>

FinalPrompt(text) == Replace(synthesis_prompt, Placeholder, text)

\* analysis_result is a dict: a function from its keys to texts
EmptyResult == [f \in {} |-> <<>>]
WithField(r, name, v) ==
  [f \in DOMAIN r \cup {name} |-> IF f = name THEN v ELSE r[f]]

NoneReturned == [none |-> TRUE, result |-> EmptyResult]
Returned(r)  == [none |-> FALSE, result |-> r]

ImageBytesList(images) == [i \in 1..Len(images) |-> images[i].image_bytes]

\* (variant: the guard is missing)
NothingToAnalyzeGuardMissing(full_text, images) == FALSE

\* "if not full_text and not images"
NothingToAnalyze(full_text, images) == full_text = <<>> /\ images = <<>>

\* (variant: the fallback hands the marker string to Step 2)
Step1MarkerAsBasis(initial, full_text) ==
  IF Falsy(initial)
  THEN [initial_analysis   |-> FallbackMarker,
        text_for_synthesis |-> FallbackMarker,
        analysis_result    |-> EmptyResult]
  ELSE [initial_analysis   |-> initial.text,
        text_for_synthesis |-> initial.text,
        analysis_result    |-> WithField(EmptyResult, "initial_extraction", initial.text)]

\* (variant: Step 2 always works from the raw text)
Step1RawTextAlways(initial, full_text) ==
  IF Falsy(initial)
  THEN [initial_analysis   |-> FallbackMarker,
        text_for_synthesis |-> full_text,
        analysis_result    |-> EmptyResult]
  ELSE [initial_analysis   |-> initial.text,
        text_for_synthesis |-> full_text,
        analysis_result    |-> WithField(EmptyResult, "initial_extraction", initial.text)]

\* the branch after Step 1
Step1(initial, full_text) ==
  IF Falsy(initial)
  THEN [initial_analysis   |-> FallbackMarker,
        text_for_synthesis |-> full_text,
        analysis_result    |-> EmptyResult]
  ELSE [initial_analysis   |-> initial.text,
        text_for_synthesis |-> initial.text,
        analysis_result    |-> WithField(EmptyResult, "initial_extraction", initial.text)]

\* (variant: Step 2 always takes the vision helper)
UseVisionAlways(image_bytes_list) == TRUE

\* "if image_bytes_list"
UseVision(image_bytes_list) == image_bytes_list # <<>>

\* (variant: a failed Step 2 returns what Step 1 collected)
Step2ReturnsPartial(final_analysis, analysis_result) ==
  IF Falsy(final_analysis) THEN Returned(analysis_result)
  ELSE Returned(WithField(analysis_result, "final_analysis", final_analysis.text))

\* the branch after Step 2 and the return
Step2(final_analysis, analysis_result) ==
  IF Falsy(final_analysis) THEN NoneReturned
  ELSE Returned(WithField(analysis_result, "final_analysis", final_analysis.text))

\* --------------------------------------------------------------- state
VARIABLES
  doc,                \* the uploaded file
  pc,                 \* position of the script run
  extracted_data,     \* what the parser returned
  warnings,           \* st.warning calls of the parser in this run
  initial_analysis,   \* analyze_report's locals
  text_for_synthesis,
  final_prompt,
  analysis_result,
  ret,                \* what analyze_report returned
  textCache,          \* st.cache_data of call_gemini_text
  visionCache,        \* st.cache_data of call_gemini_vision
  helperCalls,        \* calls of the two helpers made by this run
  svcCalls,           \* requests that reached the Completion Service in this run
  direct              \* the same run with every call going to the service,
                      \* followed under SpecDirect

vars == <<doc, pc, extracted_data, warnings, initial_analysis,
          text_for_synthesis, final_prompt, analysis_result, ret,
          textCache, visionCache, helperCalls, svcCalls, direct>>

\* answered: the service has answered every request of the direct run
DirectInit == [text_for_synthesis |-> <<>>, analysis_result |-> EmptyResult,
               ret |-> NoneReturned, answered |-> TRUE]

RunReset ==
  /\ extracted_data' = NoData
  /\ warnings' = 0
  /\ initial_analysis' = <<>>
  /\ text_for_synthesis' = <<>>
  /\ final_prompt' = <<>>
  /\ analysis_result' = EmptyResult
  /\ ret' = NoneReturned
  /\ helperCalls' = <<>>
  /\ svcCalls' = <<>>
  /\ direct' = DirectInit

Init ==
  /\ doc = NoDoc
  /\ pc = "idle"
  /\ extracted_data = NoData
  /\ warnings = 0
  /\ initial_analysis = <<>>
  /\ text_for_synthesis = <<>>
  /\ final_prompt = <<>>
  /\ analysis_result = EmptyResult
  /\ ret = NoneReturned
  /\ textCache = {}
  /\ visionCache = {}
  /\ helperCalls = <<>>
  /\ svcCalls = <<>>
  /\ direct = DirectInit

Tag(calls, p) ==
  [i \in 1..Len(calls) |-> [op |-> calls[i].op, prompt |-> calls[i].prompt,
                            parts |-> calls[i].parts, mode |-> calls[i].mode,
                            pass |-> p]]

\* main_app: a file is uploaded and the script runs
Upload ==
  /\ pc = "idle"
  /\ \E d \in Uploads : doc' = d
  /\ pc' = "parse"
  /\ UNCHANGED <<extracted_data, warnings, initial_analysis, text_for_synthesis,
                 final_prompt, analysis_result, ret, textCache, visionCache,
                 helperCalls, svcCalls, direct>>

\* main_app: parser.extract_text_and_images(temp_pdf_path)
Parse ==
  /\ pc = "parse"
  /\ LET r == extract_text_and_images(doc)
     IN  /\ extracted_data' = r.data
         /\ warnings' = r.warnings
         /\ pc' = IF r.data.ok THEN "analyze" ELSE "done"
  /\ UNCHANGED <<doc, initial_analysis, text_for_synthesis, final_prompt,
                 analysis_result, ret, textCache, visionCache, helperCalls,
                 svcCalls, direct>>

\* analyze_report up to the end of Step 1
Pass1(m) ==
  /\ pc = "analyze"
  /\ LET full_text == extracted_data.full_text
         images    == extracted_data.images
     IN  IF NothingToAnalyze(full_text, images)
         THEN /\ pc' = "done"
              /\ ret' = NoneReturned
              /\ UNCHANGED <<initial_analysis, text_for_synthesis, analysis_result,
                             textCache, helperCalls, svcCalls>>
         ELSE LET prompt == extraction_prompt(full_text)
                  c  == call_gemini_text(<<prompt>>, m, textCache)
                  s  == Step1(c.ret, full_text)
              IN  /\ pc' = "pass2"
                  /\ initial_analysis' = s.initial_analysis
                  /\ text_for_synthesis' = s.text_for_synthesis
                  /\ analysis_result' = s.analysis_result
                  /\ textCache' = c.textCache
                  /\ helperCalls' = Append(helperCalls,
                        [fn |-> "call_gemini_text", prompt |-> prompt,
                         images |-> <<>>, ret |-> c.ret, pass |-> 1])
                  /\ svcCalls' = svcCalls \o Tag(c.calls, 1)
                  /\ UNCHANGED ret
  /\ UNCHANGED <<doc, extracted_data, warnings, final_prompt, visionCache>>

AnalyzePass1(m) == Pass1(m) /\ UNCHANGED direct

\* the same step, and beside it the step of a run whose calls all go to the
\* service (the helpers called with empty caches)
DirectPass1(m) ==
  /\ Pass1(m)
  /\ LET full_text == extracted_data.full_text
         prompt == extraction_prompt(full_text)
         ds == Step1(call_gemini_text(<<prompt>>, m, {}).ret, full_text)
     IN  direct' = IF NothingToAnalyze(full_text, extracted_data.images)
                   THEN direct
                   ELSE [direct EXCEPT
                           !.text_for_synthesis = ds.text_for_synthesis,
                           !.analysis_result = ds.analysis_result,
                           !.answered = (m = "text")]

\* analyze_report from Step 2 to its return
Pass2(m) ==
  /\ pc = "pass2"
  /\ LET image_bytes_list == ImageBytesList(extracted_data.images)
         fp == FinalPrompt(text_for_synthesis)
         c  == IF UseVision(image_bytes_list)
               THEN call_gemini_vision(fp, image_bytes_list, m, textCache, visionCache)
               ELSE [visionCache |-> visionCache] @@
                    call_gemini_text(<<fp>>, m, textCache)
     IN  /\ final_prompt' = fp
         /\ textCache' = c.textCache
         /\ visionCache' = c.visionCache
         /\ helperCalls' = Append(helperCalls,
               [fn |-> IF UseVision(image_bytes_list)
                       THEN "call_gemini_vision" ELSE "call_gemini_text",
                prompt |-> fp, images |-> image_bytes_list,
                ret |-> c.ret, pass |-> 2])
         /\ svcCalls' = svcCalls \o Tag(c.calls, 2)
         /\ ret' = Step2(c.ret, analysis_result)
         /\ analysis_result' = IF Step2(c.ret, analysis_result).none
                              THEN analysis_result
                              ELSE Step2(c.ret, analysis_result).result
  /\ pc' = "done"
  /\ UNCHANGED <<doc, extracted_data, warnings, initial_analysis,
                 text_for_synthesis>>

AnalyzePass2(m) == Pass2(m) /\ UNCHANGED direct

DirectPass2(m) ==
  /\ Pass2(m)
  /\ LET image_bytes_list == ImageBytesList(extracted_data.images)
         dp == FinalPrompt(direct.text_for_synthesis)
         dc == IF UseVision(image_bytes_list)
               THEN call_gemini_vision(dp, image_bytes_list, m, {}, {})
               ELSE call_gemini_text(<<dp>>, m, {})
     IN  direct' = [direct EXCEPT
                      !.ret = Step2(dc.ret, direct.analysis_result),
                      !.answered = (@ /\ m = "text")]

\* Streamlit reruns the script with the same uploaded file; the caches stay
Rerun ==
  /\ pc = "done"
  /\ pc' = "parse"
  /\ RunReset
  /\ UNCHANGED <<doc, textCache, visionCache>>

Next ==
  \/ Upload
  \/ Parse
  \/ \E m \in SvcModes : AnalyzePass1(m)
  \/ \E m \in SvcModes : AnalyzePass2(m)
  \/ Rerun

Spec == Init /\ [][Next]_vars

\* the script run side by side with the run that bypasses the caches
NextDirect ==
  \/ Upload
  \/ Parse
  \/ \E m \in SvcModes : DirectPass1(m)
  \/ \E m \in SvcModes : DirectPass2(m)
  \/ Rerun

SpecDirect == Init /\ [][NextDirect]_vars

\* ------------------------------------------------------------- claims
Pass1Done == Len(helperCalls) >= 1
Pass2Done == Len(helperCalls) >= 2
Pass1Failed == Pass1Done /\ Falsy(helperCalls[1].ret)
Pass2Failed == Pass2Done /\ Falsy(helperCalls[2].ret)
SvcCallsOfPass(p) == SelectSeq(svcCalls, LAMBDA c : c.pass = p)
IsMarker(tok) == tok \in MarkerTokens
MarkersOf(t) == SelectSeq(t, IsMarker)
IsReadable(b) == b \in ReadablePayloads

\* C1: when the Pass-1 call fails (the service raised or returned an empty
\* text, so the helper returned None or ""), the run goes on to Pass 2, the
\* placeholder of the Pass-2 prompt is replaced by the raw full_text and not
\* by the fallback marker string, and no result has initial_extraction.
C1_Pass1FailureFallsBackToRawText ==
  Pass1Failed =>
    /\ pc \in {"pass2", "done"}
    /\ text_for_synthesis = extracted_data.full_text
    /\ "initial_extraction" \notin DOMAIN analysis_result
    /\ pc = "done" =>
         /\ Pass2Done
         /\ helperCalls[2].pass = 2
         /\ helperCalls[2].prompt =
              <<"SYNTH_HEAD">> \o extracted_data.full_text \o <<"SYNTH_TAIL">>
         /\ \A i \in 1..Len(helperCalls[2].prompt) :
              <<helperCalls[2].prompt[i]>> # FallbackMarker
         /\ "initial_extraction" \notin DOMAIN ret.result

C1_Witness ==
  /\ pc = "done" /\ Pass1Failed /\ Pass2Done
  /\ Len(svcCalls) >= 1 /\ svcCalls[1].pass = 1 /\ svcCalls[1].mode = "raise"
  /\ extracted_data.full_text # <<>>
  /\ ~ret.none

\* C2: when the Pass-2 call yields no content, analyze_report returns None,
\* whatever Pass 1 did and in both modes; a returned result always has
\* final_analysis.
C2_Pass2FailureReturnsNone ==
  pc = "done" =>
    /\ Pass2Failed => ret.none
    /\ ~ret.none => "final_analysis" \in DOMAIN ret.result

C2_Witness ==
  /\ pc = "done" /\ Pass2Failed /\ ~Pass1Failed
  /\ helperCalls[2].fn = "call_gemini_vision"
  /\ \E i \in 1..Len(svcCalls) : svcCalls[i].op = "multimodal" /\ svcCalls[i].mode = "raise"
  /\ ret.none

\* C3 (as stated): with at least one extracted image, Pass 2 is invoked in
\* multimodal mode and the model is given exactly the extracted images, none
\* dropped, in order.
C3_ModelGetsExactlyExtractedImages ==
  (Pass2Done /\ extracted_data.images # <<>>) =>
    LET imgs == ImageBytesList(extracted_data.images)
    IN  /\ helperCalls[2].fn = "call_gemini_vision"
        /\ helperCalls[2].images = imgs
        /\ \A i \in 1..Len(svcCalls) :
             svcCalls[i].pass = 2 =>
               /\ svcCalls[i].op = "multimodal"
               /\ Len(svcCalls[i].parts) = Len(imgs)

\* C3 (amended): with at least one extracted image, Pass 2 calls the vision
\* helper with exactly the extracted images in (page_num, index_on_page)
\* order; a request that reaches the model carries the JPEG re-encodings of
\* the images PIL could re-encode, in that order, and is a text-only request
\* when there is none.
C3_VisionGetsExtractedModelGetsReadable ==
  (Pass2Done /\ extracted_data.images # <<>>) =>
    LET images == extracted_data.images
        imgs == helperCalls[2].images
        readable == SelectSeq(imgs, IsReadable)
    IN  /\ helperCalls[2].fn = "call_gemini_vision"
        /\ Len(imgs) = Len(images)
        /\ \A i \in 1..Len(images) : imgs[i] = images[i].image_bytes
        /\ \A i, j \in 1..Len(images) :
             i < j => \/ images[i].page_num < images[j].page_num
                      \/ /\ images[i].page_num = images[j].page_num
                         /\ images[i].index_on_page < images[j].index_on_page
        /\ \A i \in 1..Len(svcCalls) :
             svcCalls[i].pass = 2 =>
               /\ Len(svcCalls[i].parts) = Len(readable)
               /\ \A k \in 1..Len(readable) :
                    svcCalls[i].parts[k] =
                      [mime_type |-> "image/jpeg", data |-> ToJpeg(readable[k])]
               /\ svcCalls[i].op = IF readable = <<>> THEN "text" ELSE "multimodal"

C3_Witness ==
  /\ pc = "done" /\ Pass2Done
  /\ Len(extracted_data.images) = 2
  /\ extracted_data.images[1].image_bytes = "pngLA"
  /\ extracted_data.images[2].image_bytes = "pngRGB"
  /\ \E i \in 1..Len(svcCalls) :
       /\ svcCalls[i].pass = 2 /\ svcCalls[i].op = "multimodal"
       /\ Len(svcCalls[i].parts) = 1

\* C4: a document with text and no images never reaches the vision helper or
\* a multimodal request; Pass 2 is a call of the text helper with the final
\* prompt, whatever Pass 1 returned.
C4_NoImagesTextOnly ==
  (extracted_data.ok /\ extracted_data.images = <<>>
     /\ extracted_data.full_text # <<>>) =>
    /\ \A i \in 1..Len(helperCalls) : helperCalls[i].fn = "call_gemini_text"
    /\ \A i \in 1..Len(svcCalls) : svcCalls[i].op = "text" /\ svcCalls[i].parts = <<>>
    /\ pc = "done" =>
         /\ Pass2Done
         /\ helperCalls[2].pass = 2
         /\ helperCalls[2].prompt = FinalPrompt(text_for_synthesis)

C4_Witness ==
  /\ pc = "done" /\ Pass2Done /\ Pass1Failed
  /\ extracted_data.images = <<>> /\ extracted_data.full_text # <<>>
  /\ Len(SvcCallsOfPass(2)) = 1
  /\ ~ret.none

\* C5: with an empty full_text and no images analyze_report returns None and
\* neither helper is called, so no request reaches the service.
C5_EmptyDocumentRefused ==
  (extracted_data.ok /\ extracted_data.full_text = <<>>
     /\ extracted_data.images = <<>> /\ pc # "analyze") =>
    /\ pc = "done"
    /\ ret.none
    /\ helperCalls = <<>>
    /\ svcCalls = <<>>

C5_Witness ==
  /\ pc = "done" /\ extracted_data.ok
  /\ extracted_data.full_text = <<>> /\ extracted_data.images = <<>>
  /\ doc.kind = "pdf" /\ doc.pages = <<>>
  /\ ret.none

\* C6: when the Pass-1 call returns a non-empty text, that text is what
\* replaces the placeholder in the Pass-2 prompt (the raw full_text is not),
\* and it is initial_extraction in the result.
C6_Pass1SuccessIsBasis ==
  (Pass1Done /\ ~Pass1Failed) =>
    LET summary == helperCalls[1].ret.text
    IN  /\ text_for_synthesis = summary
        /\ text_for_synthesis # extracted_data.full_text
        /\ analysis_result["initial_extraction"] = summary
        /\ pc = "done" =>
             /\ Pass2Done
             /\ helperCalls[2].prompt = <<"SYNTH_HEAD">> \o summary \o <<"SYNTH_TAIL">>
             /\ ~ret.none => ret.result["initial_extraction"] = summary

C6_Witness ==
  /\ pc = "done" /\ Pass1Done /\ ~Pass1Failed /\ Pass2Done
  /\ ~ret.none
  /\ extracted_data.full_text # <<>>

ResolvedRefs(d) ==
  {pi \in (1..Len(d.pages)) \X (0..MaxRefs + 1) :
     /\ pi[2] < Len(d.pages[pi[1]].refs)
     /\ d.pages[pi[1]].refs[pi[2] + 1] \in ImagePayloads}

FailedRefs(d) ==
  {pi \in (1..Len(d.pages)) \X (0..MaxRefs + 1) :
     /\ pi[2] < Len(d.pages[pi[1]].refs)
     /\ d.pages[pi[1]].refs[pi[2] + 1] \notin ImagePayloads}

AllPagesLoad(d) == d.kind = "pdf" /\ \A p \in 1..Len(d.pages) : d.pages[p].ok

\* C7: an image reference that raises or resolves to an empty payload does
\* not fail the extraction: it is a warning, and the images returned are
\* exactly the references that resolved, on every page, later ones included.
C7_ImageFailureNonFatal ==
  (pc \notin {"idle", "parse"} /\ AllPagesLoad(doc)) =>
    LET images == extracted_data.images
    IN  /\ extracted_data.ok
        /\ Len(extracted_data.pages_text) = Len(doc.pages)
        /\ warnings = Cardinality(FailedRefs(doc))
        /\ Len(images) = Cardinality(ResolvedRefs(doc))
        /\ \A i \in 1..Len(images) :
             /\ <<images[i].page_num, images[i].index_on_page>> \in ResolvedRefs(doc)
             /\ images[i].image_bytes =
                  doc.pages[images[i].page_num].refs[images[i].index_on_page + 1]
        /\ \A i, j \in 1..Len(images) :
             i < j => <<images[i].page_num, images[i].index_on_page>> #
                      <<images[j].page_num, images[j].index_on_page>>

C7_Witness ==
  /\ pc \notin {"idle", "parse"} /\ extracted_data.ok
  /\ Len(doc.pages) = 2
  /\ doc.pages[1].refs = <<"RAISE">>
  /\ doc.pages[2].refs = <<"pngRGB">>
  /\ warnings = 1
  /\ Len(extracted_data.images) = 1
  /\ extracted_data.images[1].page_num = 2

\* C8 (as stated): after a successful extraction of an N-page document
\* pages_text has N entries and full_text holds exactly N page markers,
\* "--- Page 1 ---" to "--- Page N ---", in increasing order.
C8_ExactlyNMarkers ==
  extracted_data.ok =>
    /\ Len(extracted_data.pages_text) = Len(doc.pages)
    /\ MarkersOf(extracted_data.full_text) =
         [k \in 1..Len(doc.pages) |-> PageMarker(k)]

\* C8 (amended): pages_text has N entries, equal to the pages' texts; the
\* markers of full_text are, page by page in increasing order, the marker
\* the extractor wrote for page k followed by the marker-shaped lines of
\* page k's own text; they are exactly "--- Page 1 ---" to "--- Page N ---"
\* when no page's text has such a line.
C8_MarkersPerPage ==
  extracted_data.ok =>
    LET n == Len(doc.pages)
        markers == MarkersOf(extracted_data.full_text)
        own(k) == Len(MarkersOf(doc.pages[k].text))
        start[k \in 1..(n + 1)] == IF k = 1 THEN 1 ELSE start[k - 1] + 1 + own(k - 1)
    IN  /\ Len(extracted_data.pages_text) = n
        /\ \A k \in 1..n : extracted_data.pages_text[k] = doc.pages[k].text
        /\ Len(markers) = start[n + 1] - 1
        /\ \A k \in 1..n :
             /\ markers[start[k]] = PageMarker(k)
             /\ SubSeq(markers, start[k] + 1, start[k] + own(k)) =
                  MarkersOf(doc.pages[k].text)
        /\ (\A k \in 1..n : own(k) = 0) =>
             markers = [k \in 1..n |-> PageMarker(k)]

C8_Witness ==
  /\ extracted_data.ok
  /\ Len(doc.pages) = 2
  /\ doc.pages[1].text = <<>>
  /\ doc.pages[2].text = <<"a">>
  /\ extracted_data.full_text = <<PageMarker(1), "\n", "\n", "\n", PageMarker(2), "\n", "a">>

\* C9: in one run at most one request reaches the service for Pass 1 and at
\* most one for Pass 2, the Pass-2 one after Pass 1 has returned; nothing is
\* sent twice, also when the vision helper falls back to the text helper.
C9_NoRetry ==
  /\ Len(helperCalls) <= 2
  /\ \A i \in 1..Len(helperCalls) : helperCalls[i].pass = i
  /\ Len(SvcCallsOfPass(1)) <= 1
  /\ Len(SvcCallsOfPass(2)) <= 1
  /\ Len(svcCalls) <= 2
  /\ \A i, j \in 1..Len(svcCalls) : i < j => svcCalls[i].pass < svcCalls[j].pass
  /\ \A i \in 1..Len(svcCalls) :
       /\ svcCalls[i].pass \in {1, 2}
       /\ svcCalls[i].pass = 2 => (Pass2Done /\ pc = "done")
       /\ svcCalls[i].pass = 1 => Pass1Done
       /\ svcCalls[i].prompt = helperCalls[svcCalls[i].pass].prompt

C9_Witness ==
  /\ pc = "done" /\ Len(svcCalls) = 2
  /\ svcCalls[1].mode = "raise"
  /\ helperCalls[2].fn = "call_gemini_vision"
  /\ svcCalls[2].op = "text"
  /\ svcCalls[2].mode = "raise"

\* C10 (under SpecDirect): a run returns with the caches what it returns
\* when every call goes to the service, also when it repeats a prompt whose
\* earlier call failed.  The two are compared in the runs in which the
\* service answers every request it gets, where the direct run succeeds.
C10_CacheIsAdvisory ==
  (pc = "done" /\ extracted_data.ok /\ direct.answered) => ret = direct.ret

\* C11: after a successful extraction of a document with at least one page
\* full_text is not empty, also when every page's text is empty and no image
\* was extracted (the page markers remain after strip); so analyze_report
\* refuses with "nothing to analyze" only for a document without pages, and
\* for a document with pages it always calls the text helper for Pass 1.
C11_PagesMakeFullTextNonEmpty ==
  /\ (extracted_data.ok /\ Len(doc.pages) >= 1) =>
        /\ extracted_data.full_text # <<>>
        /\ Head(extracted_data.full_text) = PageMarker(1)
        /\ pc \in {"pass2", "done"} =>
              /\ Pass1Done
              /\ helperCalls[1].fn = "call_gemini_text"
              /\ helperCalls[1].prompt = extraction_prompt(extracted_data.full_text)
  /\ (extracted_data.ok /\ pc = "done" /\ helperCalls = <<>>) => doc.pages = <<>>

C11_Witness ==
  /\ pc = "done" /\ extracted_data.ok
  /\ Len(doc.pages) = 2
  /\ doc.pages[1].text = <<>> /\ doc.pages[1].refs = <<>>
  /\ doc.pages[2].text = <<>> /\ doc.pages[2].refs = <<"EMPTY">>
  /\ extracted_data.images = <<>>
  /\ extracted_data.full_text = <<PageMarker(1), "\n", "\n", "\n", PageMarker(2)>>
  /\ Pass1Done
  /\ Len(svcCalls) >= 1 /\ svcCalls[1].pass = 1

====
